---- MODULE Spec2Model ----
(***************************************************************************)
(* Model of the helx-ldap directory reconciliation scripts:                *)
(*   scripts/apply_ldifs.py    (LDIF change-record engine)                 *)
(*   scripts/set_ldap_users.py (user / group reconciliation)               *)
(*   scripts/delete_ldap_dn.py (single-DN delete)                          *)
(* The directory server is modelled by the LDAP (RFC 4511) semantics of    *)
(* the add / delete / modify / search requests the scripts issue.          *)
(***************************************************************************)
EXTENDS Integers, Sequences, FiniteSets, TLC

(***************************************************************************)
(* Text.  Attribute values are named by TLA+ strings; Text gives the       *)
(* characters of each value, so that the regular expression and the        *)
(* substring filter of the schema lookup are computed on characters.       *)
(***************************************************************************)
Text ==
  [ defA |-> <<"(", " ", "1", ".", "2", " ", "a", ")">>,   \* ( 1.2 a)
    defB |-> <<"(", "1", ".", "2", "2", " ", "b", ")">>,   \* (1.22 b)
    defC |-> <<"(", "3", ".", "4", " ", "c", ")">>,        \* (3.4 c)
    defM |-> <<"(", "m", ":", "1", " ", "d", ")">>,        \* (m:1 d)  no numeric identifier
    defO |-> <<"(", "5", ".", "6", " ", "o", ")">>,        \* (5.6 o)  an object class
    v1   |-> <<"v", "1">>,
    v2   |-> <<"v", "2">> ]

Digits == {"0", "1", "2", "3", "4", "5", "6", "7", "8", "9"}

IsOidChar(c) == c \in Digits \cup {"."}

IsSpace(c) == c \in {" "}

SeqToSet(s) == {s[i] : i \in 1..Len(s)}

\* first position >= i of s that is not whitespace (Len(s)+1 if none): \s*
RECURSIVE SkipSpaces(_, _)
SkipSpaces(s, i) ==
  IF i > Len(s) THEN i
  ELSE IF IsSpace(s[i]) THEN SkipSpaces(s, i + 1) ELSE i

\* the maximal run of [0-9.] characters of s starting at i: [0-9\.]+
RECURSIVE OidRun(_, _)
OidRun(s, i) ==
  IF i > Len(s) THEN <<>>
  ELSE IF IsOidChar(s[i]) THEN <<s[i]>> \o OidRun(s, i + 1) ELSE <<>>

\* re.search(r'\(\s*([0-9\.]+)', s).group(1) tried from position i on;
\* <<>> when the expression matches nowhere
RECURSIVE OidSearchFrom(_, _)
OidSearchFrom(s, i) ==
  IF i > Len(s) THEN <<>>
  ELSE IF s[i] = "(" /\ OidRun(s, SkipSpaces(s, i + 1)) # <<>>
       THEN OidRun(s, SkipSpaces(s, i + 1))
       ELSE OidSearchFrom(s, i + 1)

ExtractOid(s) == OidSearchFrom(s, 1)

\* the substring filter (attr=*needle*)
Contains(hay, needle) ==
  \E i \in 1..(Len(hay) - Len(needle) + 1) :
     SubSeq(hay, i, i + Len(needle) - 1) = needle

(***************************************************************************)
(* The directory.  A directory is a function from the identifiers of the   *)
(* entries that exist to their attributes; an entry's attributes are a     *)
(* function from the attribute names present to the sequence of values.    *)
(***************************************************************************)
SchemaDN == "cn=schema,cn=config"

Restrict(f, S) == [x \in S |-> f[x]]

AttrValues(e, a) == IF a \in DOMAIN e THEN e[a] ELSE <<>>

WithoutValues(seq, vals) == SelectSeq(seq, LAMBDA x : x \notin SeqToSet(vals))

NoDuplicates(seq) == \A i, j \in 1..Len(seq) : i # j => seq[i] # seq[j]

\* the attributes of an add request as stored: attributes with no value
\* are not stored
StoredAttrs(attrs) ==
  Restrict(attrs, {a \in DOMAIN attrs : attrs[a] # <<>>})

\* conn.add(dn, attributes)
SrvAdd(d, dn, attrs) ==
  IF dn \in DOMAIN d
  THEN [desc |-> "entryAlreadyExists", dir |-> d]
  ELSE IF \E a \in DOMAIN attrs : ~NoDuplicates(attrs[a])
  THEN [desc |-> "attributeOrValueExists", dir |-> d]
  ELSE [desc |-> "success", dir |-> d @@ (dn :> StoredAttrs(attrs))]

\* conn.delete(dn)
SrvDelete(d, dn) ==
  IF dn \notin DOMAIN d
  THEN [desc |-> "noSuchObject", dir |-> d]
  ELSE [desc |-> "success", dir |-> Restrict(d, DOMAIN d \ {dn})]

\* one modification (op, attr, values) applied to the attributes e of an entry
ApplyMod(e, m) ==
  LET cur == AttrValues(e, m.attr)
      set(vals) == IF vals = <<>>
                   THEN Restrict(e, DOMAIN e \ {m.attr})
                   ELSE (m.attr :> vals) @@ e
  IN CASE m.op = "add" ->
            IF SeqToSet(m.values) \cap SeqToSet(cur) # {} \/ ~NoDuplicates(m.values)
            THEN [desc |-> "attributeOrValueExists", e |-> e]
            ELSE [desc |-> "success", e |-> set(cur \o m.values)]
       [] m.op = "delete" ->
            IF m.values = <<>>
            THEN IF cur = <<>>
                 THEN [desc |-> "noSuchAttribute", e |-> e]
                 ELSE [desc |-> "success", e |-> set(<<>>)]
            ELSE IF ~(SeqToSet(m.values) \subseteq SeqToSet(cur))
                 THEN [desc |-> "noSuchAttribute", e |-> e]
                 ELSE [desc |-> "success", e |-> set(WithoutValues(cur, m.values))]
       [] m.op = "replace" ->
            [desc |-> "success", e |-> set(m.values)]

RECURSIVE ApplyMods(_, _)
ApplyMods(e, mods) ==
  IF mods = <<>> THEN [desc |-> "success", e |-> e]
  ELSE LET r == ApplyMod(e, Head(mods))
       IN IF r.desc # "success" THEN r ELSE ApplyMods(r.e, Tail(mods))

\* the modifications of a request {attr: [(op, values), ...]} in the order sent
RECURSIVE FlattenChanges(_)
FlattenChanges(changes) ==
  IF changes = <<>> THEN <<>>
  ELSE [i \in 1..Len(Head(changes).ops) |->
          [op |-> Head(changes).ops[i].op, attr |-> Head(changes).attr,
           values |-> Head(changes).ops[i].values]]
       \o FlattenChanges(Tail(changes))

\* conn.modify(dn, changes): all modifications of the request or none
ModifyResult(d, dn, r) ==
  IF r.desc # "success"
  THEN [desc |-> r.desc, dir |-> d]
  ELSE [desc |-> "success", dir |-> [d EXCEPT ![dn] = r.e]]

SrvModify(d, dn, changes) ==
  IF dn \notin DOMAIN d
  THEN [desc |-> "noSuchObject", dir |-> d]
  ELSE ModifyResult(d, dn, ApplyMods(d[dn], FlattenChanges(changes)))

\* conn.result['result'] of a result description
ResultCode(desc) ==
  CASE desc = "success" -> 0
    [] desc = "noSuchAttribute" -> 16
    [] desc = "attributeOrValueExists" -> 20
    [] desc = "noSuchObject" -> 32
    [] desc = "insufficientAccessRights" -> 50
    [] desc = "entryAlreadyExists" -> 68

(***************************************************************************)
(* apply_ldifs.py: the schema existence lookups.                           *)
(***************************************************************************)
\* the entries a subtree search below cn=schema,cn=config can return
SchemaSubtree == {SchemaDN}

\* conn.search('cn=schema,cn=config', '(<attr>=*<oid>*)'); len(conn.entries) > 0
SchemaSearchHits(d, attr, oid) ==
  {dn \in SchemaSubtree \cap DOMAIN d :
     \E i \in 1..Len(AttrValues(d[dn], attr)) :
        Contains(Text[AttrValues(d[dn], attr)[i]], oid)}

\* the lookup made on the wrong attribute
attribute_type_exists_wrong_attr(d, definition) ==
  LET oid == ExtractOid(Text[definition])
  IN IF oid = <<>> THEN FALSE
     ELSE SchemaSearchHits(d, "olcObjectClasses", oid) # {}

attribute_type_exists(d, definition) ==
  LET oid == ExtractOid(Text[definition])
  IN IF oid = <<>> THEN FALSE
     ELSE SchemaSearchHits(d, "olcAttributeTypes", oid) # {}

object_class_exists(d, definition) ==
  LET oid == ExtractOid(Text[definition])
  IN IF oid = <<>> THEN FALSE
     ELSE SchemaSearchHits(d, "olcObjectClasses", oid) # {}

(***************************************************************************)
(* apply_ldifs.py: process_modify.  An entry is an ordered dictionary: a   *)
(* sequence of [key, values] with distinct keys.                           *)
(***************************************************************************)
mod_ops == {"add", "delete", "replace"}

Keys(entry) == [i \in 1..Len(entry) |-> entry[i].key]

HasKey(entry, k) == \E i \in 1..Len(entry) : entry[i].key = k

Get(entry, k) == entry[CHOOSE i \in 1..Len(entry) : entry[i].key = k].values

\* entry.pop(k): the entry without key k
Pop(entry, k) == SelectSeq(entry, LAMBDA kv : kv.key # k)

\* does the ModOp (mod_op, attr_name) on dn consult the schema, and with what answer
LooksUp(dn, mod_op, attr_name) ==
  mod_op = "add" /\ dn = SchemaDN
  /\ attr_name \in {"olcAttributeTypes", "olcObjectClasses"}

Exists(d, attr_name, definition) ==
  IF attr_name = "olcAttributeTypes" THEN attribute_type_exists(d, definition)
  ELSE IF attr_name = "olcObjectClasses" THEN object_class_exists(d, definition)
  ELSE FALSE

\* the scan state: idx is 1-based, mod_op the loop variable of the while body,
\* modlist the operations collected, lookups the number of schema searches made,
\* consumed the key positions read as attribute keys
\* lines 185-208: the body of the for loop once attr_key and values are read
\* the loop body without the downgrade of an existing definition to replace
AttrEmit_no_downgrade(st, attr_name, values, exists, enable_update, looked) ==
  [idx |-> st.idx + 1,
   mod_op |-> st.mod_op,
   modlist |-> IF exists /\ ~enable_update THEN st.modlist
               ELSE Append(st.modlist,
                      [op |-> st.mod_op, attr |-> attr_name, values |-> values]),
   lookups |-> st.lookups + (IF looked THEN 1 ELSE 0),
   consumed |-> Append(st.consumed, st.idx)]

AttrEmit(st, attr_name, values, exists, enable_update, looked) ==
  [idx |-> st.idx + 1,
   mod_op |-> IF exists /\ enable_update THEN "replace" ELSE st.mod_op,
   modlist |-> IF exists /\ ~enable_update THEN st.modlist
               ELSE Append(st.modlist,
                      [op |-> IF exists /\ enable_update THEN "replace" ELSE st.mod_op,
                       attr |-> attr_name, values |-> values]),
   lookups |-> st.lookups + (IF looked THEN 1 ELSE 0),
   consumed |-> Append(st.consumed, st.idx)]

AttrStep(d, dn, enable_update, attr_name, values, st) ==
  AttrEmit(st, attr_name, values,
           st.mod_op = "add" /\ dn = SchemaDN /\ Exists(d, attr_name, values[1]),
           enable_update, LooksUp(dn, st.mod_op, attr_name))

\* lines 176-208: for attr_name in attrs (from the k-th attribute name on)
RECURSIVE ForAttrs(_, _, _, _, _, _, _)
ForAttrs(d, dn, entry, enable_update, attrs, k, st) ==
  IF k > Len(attrs) THEN st
  ELSE IF st.idx > Len(entry) THEN st                       \* break
  ELSE IF entry[st.idx].key # attrs[k] THEN st                \* break
  ELSE ForAttrs(d, dn, entry, enable_update, attrs, k + 1,
                AttrStep(d, dn, enable_update, attrs[k], entry[st.idx].values, st))

\* lines 209-211: skip the '-' separator if present
SkipSeparator(entry, st) ==
  IF st.idx <= Len(entry) /\ entry[st.idx].key = "-"
  THEN [st EXCEPT !.idx = st.idx + 1]
  ELSE st

\* the body of the while loop with a separator or unexpected key left unread
WhileBody_key_unread(d, dn, entry, enable_update, st) ==
  IF entry[st.idx].key \in mod_ops
  THEN SkipSeparator(entry,
         ForAttrs(d, dn, entry, enable_update, entry[st.idx].values, 1,
                  [st EXCEPT !.idx = st.idx + 1, !.mod_op = entry[st.idx].key]))
  ELSE st

\* lines 172-217: one iteration of the while loop
WhileBody(d, dn, entry, enable_update, st) ==
  IF entry[st.idx].key \in mod_ops
  THEN SkipSeparator(entry,
         ForAttrs(d, dn, entry, enable_update, entry[st.idx].values, 1,
                  [st EXCEPT !.idx = st.idx + 1, !.mod_op = entry[st.idx].key]))
  ELSE [st EXCEPT !.idx = st.idx + 1]

\* lines 171-217: while idx < len(keys)
RECURSIVE Scan(_, _, _, _, _)
Scan(d, dn, entry, enable_update, st) ==
  IF st.idx > Len(entry) THEN st
  ELSE Scan(d, dn, entry, enable_update, WhileBody(d, dn, entry, enable_update, st))

\* lines 165-170: the state before the first iteration
ScanStart == [idx |-> 1, mod_op |-> "", modlist |-> <<>>, lookups |-> 0, consumed |-> <<>>]

ScanModify(d, dn, entry, enable_update) == Scan(d, dn, entry, enable_update, ScanStart)

\* lines 219-223: changes[attr].append((ldap_op, values)), attributes in order
\* of first appearance
RECURSIVE GroupChanges(_, _)
GroupChanges(modlist, changes) ==
  IF modlist = <<>> THEN changes
  ELSE LET m == Head(modlist)
           item == [op |-> m.op, values |-> m.values]
           there == \E i \in 1..Len(changes) : changes[i].attr = m.attr
       IN GroupChanges(Tail(modlist),
            IF there
            THEN [i \in 1..Len(changes) |->
                    IF changes[i].attr = m.attr
                    THEN [changes[i] EXCEPT !.ops = Append(@, item)]
                    ELSE changes[i]]
            ELSE Append(changes, [attr |-> m.attr, ops |-> <<item>>]))

(***************************************************************************)
(* The outcome of one handler call: the request sent (kind "none" when no  *)
(* request is sent), the server's result description ("" when there is     *)
(* none), the line printed, the directory afterwards, and whether an       *)
(* exception leaves the handler.                                           *)
(* fault: "none", or the way the session misbehaves during the call:       *)
(*   "raise"  the add / delete / modify call raises,                       *)
(*   "refuse" the server answers insufficientAccessRights,                 *)
(*   "lookup" a schema search raises.                                      *)
(***************************************************************************)
NoRequest == [kind |-> "none", dn |-> "", attrs |-> <<>>, changes |-> <<>>]

AddRequest(dn, attrs) == [kind |-> "add", dn |-> dn, attrs |-> attrs, changes |-> <<>>]

DeleteRequest(dn) == [kind |-> "delete", dn |-> dn, attrs |-> <<>>, changes |-> <<>>]

ModifyRequest(dn, changes) ==
  [kind |-> "modify", dn |-> dn, attrs |-> <<>>, changes |-> changes]

Outcome(req, desc, printed, d, raised) ==
  [req |-> req, desc |-> desc, printed |-> printed, dir |-> d, raised |-> raised]

\* the attributes of an ordered dictionary as a function
DictAttrs(entry) == [a \in SeqToSet(Keys(entry)) |-> Get(entry, a)]

\* an add that turns into a replace of the attributes when the entry exists
process_add_upsert(d, dn, entry, fault) ==
  LET attrs == DictAttrs(entry)
      changes == [i \in 1..Len(entry) |->
                    [attr |-> entry[i].key,
                     ops |-> <<[op |-> "replace", values |-> entry[i].values]>>]]
  IN IF dn \in DOMAIN d
     THEN Outcome(ModifyRequest(dn, changes), "success", "Successfully added entry",
                  SrvModify(d, dn, changes).dir, FALSE)
     ELSE Outcome(AddRequest(dn, attrs), "success", "Successfully added entry",
                  SrvAdd(d, dn, attrs).dir, FALSE)

\* lines 97-114
process_add(d, dn, entry, fault) ==
  LET req == AddRequest(dn, DictAttrs(entry))
      r == SrvAdd(d, dn, DictAttrs(entry))
  IN CASE fault = "raise" -> Outcome(req, "", "Error adding entry", d, FALSE)
       [] fault = "refuse" ->
            Outcome(req, "insufficientAccessRights", "Failed to add entry", d, FALSE)
       [] OTHER ->
            IF ResultCode(r.desc) = 0
            THEN Outcome(req, r.desc, "Successfully added entry", r.dir, FALSE)
            ELSE Outcome(req, r.desc, "Failed to add entry", r.dir, FALSE)

\* lines 116-132
process_delete(d, dn, fault) ==
  LET req == DeleteRequest(dn)
      r == SrvDelete(d, dn)
  IN CASE fault = "raise" -> Outcome(req, "", "Error deleting entry", d, FALSE)
       [] fault = "refuse" ->
            Outcome(req, "insufficientAccessRights", "Failed to delete entry", d, FALSE)
       [] OTHER ->
            IF ResultCode(r.desc) = 0
            THEN Outcome(req, r.desc, "Successfully deleted entry", r.dir, FALSE)
            ELSE Outcome(req, r.desc, "Failed to delete entry", r.dir, FALSE)

\* lines 227-232: the result of the modify request interpreted
ModifyReport(req, r) ==
  IF ResultCode(r.desc) = 0
  THEN Outcome(req, r.desc, "Successfully modified entry", r.dir, FALSE)
  ELSE IF ResultCode(r.desc) = 20
  THEN Outcome(req, r.desc, "Attribute or value already exists, skipping", r.dir, FALSE)
  ELSE Outcome(req, r.desc, "Failed to modify entry", r.dir, FALSE)

\* the request sent whether or not there is a modification to send
ModifySend_unguarded(d, dn, changes, fault) ==
  CASE fault = "raise" ->
         Outcome(ModifyRequest(dn, changes), "", "Error modifying entry", d, FALSE)
    [] fault = "refuse" ->
         Outcome(ModifyRequest(dn, changes), "insufficientAccessRights",
                 "Failed to modify entry", d, FALSE)
    [] OTHER -> ModifyReport(ModifyRequest(dn, changes), SrvModify(d, dn, changes))

\* lines 224-236: the batched request, if any
ModifySend(d, dn, changes, fault) ==
  IF changes = <<>>
  THEN Outcome(NoRequest, "", "No modifications to apply", d, FALSE)
  ELSE CASE fault = "raise" ->
              Outcome(ModifyRequest(dn, changes), "", "Error modifying entry", d, FALSE)
         [] fault = "refuse" ->
              Outcome(ModifyRequest(dn, changes), "insufficientAccessRights",
                      "Failed to modify entry", d, FALSE)
         [] OTHER -> ModifyReport(ModifyRequest(dn, changes), SrvModify(d, dn, changes))

\* a schema search that raises leaves process_modify: no handler catches it there
ModifyAfterScan(d, dn, scan, fault) ==
  IF fault = "lookup" /\ scan.lookups > 0
  THEN Outcome(NoRequest, "", "", d, TRUE)
  ELSE ModifySend(d, dn, GroupChanges(scan.modlist, <<>>), fault)

\* lines 162-236
process_modify(d, dn, entry, enable_update, fault) ==
  ModifyAfterScan(d, dn, ScanModify(d, dn, entry, enable_update), fault)

\* lines 81-93: the dispatch of one parsed record with a target identifier
Dispatch(d, dn, entry, enable_update, fault) ==
  IF HasKey(entry, "changetype")
  THEN LET changetype == Get(entry, "changetype")[1]
           rest == Pop(entry, "changetype")
       IN CASE changetype = "modify" -> process_modify(d, dn, rest, enable_update, fault)
            [] changetype = "add" -> process_add(d, dn, rest, fault)
            [] changetype = "delete" -> process_delete(d, dn, fault)
            [] OTHER -> Outcome(NoRequest, "", "Unsupported changetype", d, FALSE)
  ELSE process_add(d, dn, entry, fault)

(***************************************************************************)
(* The inputs: change records, record files and directory trees.           *)
(***************************************************************************)
UserDN == "uid=x,dc=org"

KV(k, vals) == [key |-> k, values |-> vals]

Rec(dn, entry) == [nodn |-> FALSE, dn |-> dn, entry |-> entry]

\* what the parser yields for each record: (dn, ordered dictionary)
RecordLib ==
  [ addX   |-> Rec(UserDN, <<KV("changetype", <<"add">>), KV("cn", <<"v1">>)>>),
    plainX |-> Rec(UserDN, <<KV("cn", <<"v2">>)>>),
    delX   |-> Rec(UserDN, <<KV("changetype", <<"delete">>)>>),
    modX   |-> Rec(UserDN, <<KV("changetype", <<"modify">>),
                             KV("add", <<"cn">>), KV("cn", <<"v2">>)>>),
    schA   |-> Rec(SchemaDN, <<KV("changetype", <<"modify">>),
                               KV("add", <<"olcAttributeTypes">>),
                               KV("olcAttributeTypes", <<"defA">>)>>),
    schM   |-> Rec(SchemaDN, <<KV("changetype", <<"modify">>),
                               KV("add", <<"olcAttributeTypes">>),
                               KV("olcAttributeTypes", <<"defM">>)>>),
    schO   |-> Rec(SchemaDN, <<KV("changetype", <<"modify">>),
                               KV("add", <<"olcObjectClasses">>),
                               KV("olcObjectClasses", <<"defO">>)>>),
    schAM  |-> Rec(SchemaDN, <<KV("changetype", <<"modify">>),
                               KV("add", <<"olcAttributeTypes">>),
                               KV("olcAttributeTypes", <<"defA", "defM">>)>>),
    schAO  |-> Rec(SchemaDN, <<KV("changetype", <<"modify">>),
                               KV("add", <<"olcAttributeTypes", "olcObjectClasses">>),
                               KV("olcAttributeTypes", <<"defA">>),
                               KV("olcObjectClasses", <<"defO">>)>>),
    schCA  |-> Rec(SchemaDN, <<KV("changetype", <<"modify">>),
                               KV("add", <<"olcAttributeTypes">>),
                               KV("olcAttributeTypes", <<"defC", "defA">>)>>),
    \* two blocks "add: cn / cn: v2 / -" and "add: sn / sn: v1 / -": the
    \* dictionary holds each key once, in the order of its first line
    sepAdd |-> Rec(UserDN, <<KV("changetype", <<"modify">>),
                             KV("add", <<"cn", "sn">>), KV("cn", <<"v2">>),
                             KV("-", <<>>), KV("sn", <<"v1">>)>>),
    addDup |-> Rec(UserDN, <<KV("changetype", <<"add">>), KV("cn", <<"v1", "v1">>)>>),
    emptyDn |-> Rec("", <<KV("cn", <<"v1">>)>>),
    moddn  |-> Rec(UserDN, <<KV("changetype", <<"moddn">>), KV("newrdn", <<"v1">>)>>),
    noDn   |-> [nodn |-> TRUE, dn |-> "", entry |-> <<>>] ]

AllRecords == DOMAIN RecordLib

\* the records of the runs with parse errors and session faults
RunRecords == {"addX", "delX", "schA"}

\* sequences over S of length at most n
RECURSIVE SeqsUpTo(_, _)
SeqsUpTo(S, n) ==
  IF n = 0 THEN {<<>>}
  ELSE LET shorter == SeqsUpTo(S, n - 1)
       IN shorter \cup {Append(q, x) : q \in {r \in shorter : Len(r) = n - 1}, x \in S}

\* a record file: its blocks in order, each a record of RecordLib or the
\* malformed block Bad, on which the parser raises
Bad == "BAD"

FileContents(S, n) == SeqsUpTo(S, n)

\* a directory tree: directory path -> its listing
Listing(dirs, files) == [dirs |-> dirs, files |-> files]

LdifNames == {"b.ldif", "c.ldif"}

\* file.endswith('.ldif')
EndsWithLdif(name) == name \in LdifNames

OneFileTree == (<<"a">> :> Listing(<<>>, <<"b.ldif">>))

NestedTree ==
  (<<"a">> :> Listing(<<"b">>, <<"notes.txt", "b.ldif">>))
  @@ (<<"a", "b">> :> Listing(<<>>, <<"c.ldif">>))

FlatTree == (<<"a">> :> Listing(<<>>, <<"c.ldif", "notes.txt", "b.ldif">>))

RunTrees == {NestedTree, FlatTree}

Root == <<"a">>

\* os.walk(top, topdown=False): the (root, dirs, files) triples, each
\* directory after all of its subdirectories
RECURSIVE walk(_, _)
RECURSIVE WalkDirs(_, _, _)
WalkDirs(tree, path, k) ==
  IF k > Len(tree[path].dirs) THEN <<>>
  ELSE walk(tree, Append(path, tree[path].dirs[k])) \o WalkDirs(tree, path, k + 1)

\* the walk with topdown=True: each directory before its subdirectories
walk_topdown(tree, path) ==
  <<[root |-> path, dirs |-> tree[path].dirs, files |-> tree[path].files]>>
  \o WalkDirs(tree, path, 1)

walk(tree, path) ==
  WalkDirs(tree, path, 1)
  \o <<[root |-> path, dirs |-> tree[path].dirs, files |-> tree[path].files]>>

\* lines 252-256: the paths handed to process_ldif_file, in order
RECURSIVE LdifPathsOf(_)
LdifPathsOf(triples) ==
  IF triples = <<>> THEN <<>>
  ELSE LET t == Head(triples)
           names == SelectSeq(t.files, EndsWithLdif)
       IN [i \in 1..Len(names) |-> Append(t.root, names[i])] \o LdifPathsOf(Tail(triples))

LdifQueue(tree) == LdifPathsOf(walk(tree, Root))

(***************************************************************************)
(* Bounds.                                                                 *)
(***************************************************************************)
\* records in the change set that is applied twice
MaxRecs == 2

\* records per file, and session faults per run, in the runs over a tree
MaxFileRecs == 2

MaxFaults == 1

(***************************************************************************)
(* State of a run of apply_ldifs.py main.                                  *)
(***************************************************************************)
VARIABLES
  update,     \* args.update
  dir,        \* the directory behind the bound session
  tree,       \* the directory tree under args.ldif_directory
  content,    \* file path -> the file's records
  queue,      \* the files main has still to hand to process_ldif_file
  ri,         \* position of the parser in the file at the head of queue
  pass,       \* 1 in the first invocation of main, 2 in the repeated one
  snap,       \* the directory at the end of the first invocation
  faults,     \* session faults injected so far
  log,        \* one entry per step of the parser loop, oldest first
  users,      \* set_ldap_users.py: the users of the YAML file
  ui,         \* set_ldap_users.py: position of main in users
  crashed,    \* set_ldap_users.py: an exception has ended main
  modDn,      \* process_modify followed step by step: dn
  modEntry,   \* process_modify followed step by step: entry
  scanSt,     \* process_modify followed step by step: idx, mod_op, modlist
  scanLog     \* one entry per iteration of its while loop, oldest first

vars == <<update, dir, tree, content, queue, ri, pass, snap, faults, log,
          users, ui, crashed, modDn, modEntry, scanSt, scanLog>>

scanVars == <<modDn, modEntry, scanSt, scanLog>>

userVars == <<users, ui, crashed,
               modDn, modEntry, scanSt, scanLog>>

ldifVars == <<update, tree, content, queue, ri, pass, snap>>

SchemaEntry(types) ==
  IF types = <<>> THEN ("cn" :> <<"v1">>)
  ELSE ("cn" :> <<"v1">>) @@ ("olcAttributeTypes" :> types)

UserEntry == ("cn" :> <<"v1">>)

\* the directories a run can start from
InitDirs ==
  {(SchemaDN :> SchemaEntry(types)) @@ others :
      types \in {<<>>, <<"defC">>, <<"defB">>},
      others \in {<<>>, (UserDN :> UserEntry)}}

InitCommon ==
  /\ update \in BOOLEAN
  /\ queue = LdifQueue(tree)
  /\ ri = 1
  /\ pass = 1
  /\ snap = <<>>
  /\ faults = 0
  /\ log = <<>>
  /\ users = <<>> /\ ui = 1 /\ crashed = FALSE
  /\ modDn = "" /\ modEntry = <<>> /\ scanSt = ScanStart /\ scanLog = <<>>

\* one change set in one file, applied twice
Init ==
  /\ tree = OneFileTree
  /\ content \in [{<<"a", "b.ldif">>} -> FileContents(AllRecords, MaxRecs)]
  /\ dir \in InitDirs
  /\ InitCommon

\* one run over a tree of files that may be malformed
InitRun ==
  /\ tree \in RunTrees
  /\ content \in [SeqToSet(LdifQueue(tree)) ->
                     FileContents(RunRecords \cup {Bad}, MaxFileRecs)]
  /\ dir = (SchemaDN :> SchemaEntry(<<"defC">>))
  /\ InitCommon

CurFile == content[Head(queue)]

AtBlock == queue # <<>> /\ ri <= Len(CurFile)

AtRecord == AtBlock /\ CurFile[ri] # Bad

CurRec == RecordLib[CurFile[ri]]

LogEntry(kind, o) ==
  [pass |-> pass, path |-> Head(queue), ri |-> ri, kind |-> kind,
   rec |-> IF kind = "record" \/ kind = "nodn" THEN CurFile[ri] ELSE "",
   req |-> o.req, desc |-> o.desc, printed |-> o.printed, raised |-> o.raised,
   pre |-> dir]

Silent == Outcome(NoRequest, "", "", dir, FALSE)

\* lines 55-56: a record without target identifier is skipped
SkipNoDn ==
  /\ AtRecord /\ CurRec.nodn
  /\ ri' = ri + 1
  /\ log' = Append(log, LogEntry("nodn", Silent))
  /\ UNCHANGED <<update, dir, tree, content, queue, pass, snap, faults, users, ui, crashed,
               modDn, modEntry, scanSt, scanLog>>

\* lines 54-93 for one record, and lines 94-95 when an exception leaves the handler
HandleOutcome(o) ==
  /\ dir' = o.dir
  /\ log' = Append(log, LogEntry("record", o))
  /\ IF o.raised
     THEN queue' = Tail(queue) /\ ri' = 1
     ELSE queue' = queue /\ ri' = ri + 1
  /\ UNCHANGED <<update, tree, content, pass, snap, users, ui, crashed,
               modDn, modEntry, scanSt, scanLog>>

Handle(fault) == HandleOutcome(Dispatch(dir, CurRec.dn, CurRec.entry, update, fault))

ProcessRecord ==
  /\ AtRecord /\ ~CurRec.nodn
  /\ Handle("none")
  /\ UNCHANGED faults

\* the same with the session misbehaving during the call
FaultHits(fault, o) == IF fault = "lookup" THEN o.raised ELSE o.req.kind # "none"

FaultApplies(fault) ==
  FaultHits(fault, Dispatch(dir, CurRec.dn, CurRec.entry, update, fault))

ProcessRecordFaulty ==
  /\ AtRecord /\ ~CurRec.nodn
  /\ faults < MaxFaults
  /\ \E fault \in {"raise", "refuse", "lookup"} :
        /\ FaultApplies(fault)
        /\ Handle(fault)
  /\ faults' = faults + 1

\* a parse error that ends the whole run
ParseError_aborts_run ==
  /\ AtBlock /\ CurFile[ri] = Bad
  /\ log' = Append(log, [LogEntry("parse_error", Silent) EXCEPT
                           !.printed = "Error processing LDIF file", !.raised = TRUE])
  /\ queue' = <<>> /\ ri' = 1
  /\ UNCHANGED <<update, dir, tree, content, pass, snap, faults, users, ui, crashed,
               modDn, modEntry, scanSt, scanLog>>

\* the parser raises on a malformed record: lines 94-95
ParseError ==
  /\ AtBlock /\ CurFile[ri] = Bad
  /\ log' = Append(log, [LogEntry("parse_error", Silent) EXCEPT
                           !.printed = "Error processing LDIF file", !.raised = TRUE])
  /\ queue' = Tail(queue) /\ ri' = 1
  /\ UNCHANGED <<update, dir, tree, content, pass, snap, faults, users, ui, crashed,
               modDn, modEntry, scanSt, scanLog>>

\* the parser is exhausted
EndOfFile ==
  /\ queue # <<>> /\ ri = Len(CurFile) + 1
  /\ log' = Append(log, LogEntry("eof", Silent))
  /\ queue' = Tail(queue) /\ ri' = 1
  /\ UNCHANGED <<update, dir, tree, content, pass, snap, faults, users, ui, crashed,
               modDn, modEntry, scanSt, scanLog>>

\* main is run again on the same tree
Rerun ==
  /\ queue = <<>> /\ pass = 1
  /\ pass' = 2
  /\ snap' = dir
  /\ queue' = LdifQueue(tree) /\ ri' = 1
  /\ UNCHANGED <<update, dir, tree, content, faults, log, users, ui, crashed,
               modDn, modEntry, scanSt, scanLog>>

Done == queue = <<>>

Next == SkipNoDn \/ ProcessRecord \/ EndOfFile \/ Rerun

Spec == Init /\ [][Next]_vars

NextRun == ProcessRecord \/ ProcessRecordFaulty \/ ParseError \/ EndOfFile

SpecRun == InitRun /\ [][NextRun]_vars

(***************************************************************************)
(* set_ldap_users.py.  A call of create_ldap_user is a sequence of         *)
(* requests on its own session; the state threaded through the call is     *)
(*   dir      the directory,                                               *)
(*   n        the number of requests sent,                                 *)
(*   reqs     the requests sent with their results,                        *)
(*   printed  the lines printed,                                           *)
(*   stop     "" while the call runs, "raised" after an LDAPException      *)
(*            (caught at line 150), "returned" after the return of line    *)
(*            81, "keyerror" after a KeyError, which nothing catches.      *)
(* fault = [at, how]: the at-th request of the call raises ("raise") or    *)
(* is answered insufficientAccessRights ("refuse"); at = 0 for no fault.   *)
(***************************************************************************)
GroupBaseDN == "ou=groups,dc=example,dc=org"

UserDNOf(uid) ==
  CASE uid = "u1" -> "uid=u1,ou=users,dc=example,dc=org"
    [] uid = "u2" -> "uid=u2,ou=users,dc=example,dc=org"

GroupDNOf(name) ==
  CASE name = "g0" -> "cn=g0,ou=groups,dc=example,dc=org"
    [] name = "g1" -> "cn=g1,ou=groups,dc=example,dc=org"

\* str(x) of the numbers used
PyStr(x) ==
  CASE x = 1000 -> "1000"
    [] x = 2000 -> "2000"
    [] x = 10 -> "10"
    [] x = 20 -> "20"

\* user.get(k, default)
UGet(user, k, default) == IF k \in DOMAIN user THEN user[k] ELSE default

NoFault == [at |-> 0, how |-> "none"]

Session(d) == [dir |-> d, n |-> 0, reqs |-> <<>>, printed |-> <<>>, stop |-> ""]

Say(st, msg) == [st EXCEPT !.printed = Append(@, msg)]

Sent(kind, dn, attrs, changes, desc, found) ==
  [kind |-> kind, dn |-> dn, attrs |-> attrs, changes |-> changes,
   desc |-> desc, found |-> found]

\* one request: req = [kind, dn, attrs, changes]; srv = the server's answer
\* [desc, dir, found] when the session behaves
Send(st, fault, req, srv) ==
  IF fault.at = st.n + 1 /\ fault.how = "raise"
  THEN [st EXCEPT !.n = @ + 1,
                  !.reqs = Append(@, Sent(req.kind, req.dn, req.attrs, req.changes,
                                          "exception", FALSE)),
                  !.printed = Append(@, "Error in creating user"),
                  !.stop = "raised"]
  ELSE IF fault.at = st.n + 1 /\ fault.how = "refuse"
  THEN [st EXCEPT !.n = @ + 1,
                  !.reqs = Append(@, Sent(req.kind, req.dn, req.attrs, req.changes,
                                          "insufficientAccessRights", FALSE))]
  ELSE [st EXCEPT !.n = @ + 1,
                  !.reqs = Append(@, Sent(req.kind, req.dn, req.attrs, req.changes,
                                          srv.desc, srv.found)),
                  !.dir = srv.dir]

LastOk(st) == st.reqs[Len(st.reqs)].desc = "success"

LastFound(st) == st.reqs[Len(st.reqs)].found

Answer(r) == [desc |-> r.desc, dir |-> r.dir, found |-> FALSE]

BindRequest == [kind |-> "bind", dn |-> "", attrs |-> <<>>, changes |-> <<>>]

SearchRequest(dn) == [kind |-> "search", dn |-> dn, attrs |-> <<>>, changes |-> <<>>]

\* conn.search(dn, '(objectClass=<cls>)', search_scope='BASE'): True when the
\* entry exists and matches (cls = "*" matches every entry)
BaseSearch(d, dn, cls) ==
  IF dn \in DOMAIN d
     /\ (cls = "*" \/ cls \in SeqToSet(AttrValues(d[dn], "objectClass")))
  THEN [desc |-> "success", dir |-> d, found |-> TRUE]
  ELSE [desc |-> "success", dir |-> d, found |-> FALSE]

\* line 75: Connection(..., auto_bind=True): a bind that is refused raises
BindFault(fault) == IF fault.at = 1 THEN [fault EXCEPT !.how = "raise"] ELSE fault

Bind(st, fault) ==
  Send(st, BindFault(fault), BindRequest,
       [desc |-> "success", dir |-> st.dir, found |-> FALSE])

\* lines 26-48 and 79-81
GroupBaseAttrs ==
  ("objectClass" :> <<"top", "organizationalUnit">>) @@ ("ou" :> <<"groups">>)

GroupBaseAdded(st) ==
  IF st.stop # "" THEN st
  ELSE IF LastOk(st) THEN Say(st, "Created group base DN")
  ELSE [Say(Say(st, "Failed to create group base DN"),
            "Cannot proceed without group base DN") EXCEPT !.stop = "returned"]

GroupBaseSearched(st, fault) ==
  IF st.stop # "" THEN st
  ELSE IF LastFound(st) THEN st
  ELSE GroupBaseAdded(Send(st, fault, AddRequest(GroupBaseDN, GroupBaseAttrs),
                           Answer(SrvAdd(st.dir, GroupBaseDN, GroupBaseAttrs))))

ensure_group_base_dn_exists(st, fault) ==
  IF st.stop # "" THEN st
  ELSE GroupBaseSearched(Send(st, fault, SearchRequest(GroupBaseDN),
                              BaseSearch(st.dir, GroupBaseDN, "*")), fault)

\* lines 84-100: the keys read with user[...]
RequiredKeys == {"uid", "cn", "sn", "runAsUser", "runAsGroup", "fsGroup"}

Scalar(attr, v) == [attr |-> attr, list |-> FALSE, values |-> <<v>>]

List(attr, vs) == [attr |-> attr, list |-> TRUE, values |-> vs]

\* lines 85-100: attrs, in the order of the dictionary
DesiredAttrs(user) ==
  << List("objectClass",
          <<"inetOrgPerson", "organizationalPerson", "person", "kubernetesSC", "top">>),
     Scalar("uid", user["uid"]),
     Scalar("cn", user["cn"]),
     Scalar("sn", user["sn"]),
     Scalar("mail", UGet(user, "email", "")),
     Scalar("telephoneNumber", UGet(user, "telephoneNumber", "")),
     Scalar("o", UGet(user, "o", "")),
     Scalar("ou", UGet(user, "ou", "")),
     Scalar("givenName", UGet(user, "givenName", "")),
     Scalar("displayName", UGet(user, "displayName", "")),
     List("supplementalGroups",
          [i \in 1..Len(UGet(user, "supplementalGroups", <<>>)) |->
             PyStr(user["supplementalGroups"][i])]),
     Scalar("runAsUser", PyStr(user["runAsUser"])),
     Scalar("runAsGroup", PyStr(user["runAsGroup"])),
     Scalar("fsGroup", PyStr(user["fsGroup"])) >>

AttrsOf(desired) ==
  [a \in {desired[i].attr : i \in 1..Len(desired)} |->
     desired[CHOOSE i \in 1..Len(desired) : desired[i].attr = a].values]

\* the comparison with lists compared as lists
Differs_ordered(want, existing_value) ==
  IF want.list
  THEN want.values # existing_value
  ELSE want.values[1] # (IF existing_value # <<>> THEN existing_value[1] ELSE "")

\* lines 111-116: does the desired attribute differ from the current one
Differs(want, existing_value) ==
  IF want.list
  THEN SeqToSet(want.values) # SeqToSet(existing_value)
  ELSE want.values[1] # (IF existing_value # <<>> THEN existing_value[1] ELSE "")

\* every desired attribute replaced, equal or not
Modifications_all(desired, existing_attrs) ==
  [i \in 1..Len(desired) |->
     [attr |-> desired[i].attr,
      ops |-> <<[op |-> "replace", values |-> desired[i].values]>>]]

\* lines 106-116: modifications
Modifications(desired, existing_attrs) ==
  LET differing == SelectSeq(desired,
                     LAMBDA want : Differs(want, AttrValues(existing_attrs, want.attr)))
  IN [i \in 1..Len(differing) |->
        [attr |-> differing[i].attr,
         ops |-> <<[op |-> "replace", values |-> differing[i].values]>>]]

UserUpdated(st) ==
  IF st.stop # "" THEN st
  ELSE IF LastOk(st) THEN Say(st, "User updated successfully")
  ELSE Say(st, "Failed to update user")

UserCreated(st) ==
  IF st.stop # "" THEN st
  ELSE IF LastOk(st) THEN Say(st, "User created successfully")
  ELSE Say(st, "Failed to create user")

\* lines 117-123
UserUpdate(st, fault, user_dn, modifications) ==
  IF modifications = <<>> THEN Say(st, "No updates necessary")
  ELSE UserUpdated(Send(st, fault, ModifyRequest(user_dn, modifications),
                        Answer(SrvModify(st.dir, user_dn, modifications))))

\* lines 103-128
UserSearched(st, fault, user_dn, desired) ==
  IF st.stop # "" THEN st
  ELSE IF LastFound(st)
  THEN UserUpdate(st, fault, user_dn, Modifications(desired, st.dir[user_dn]))
  ELSE UserCreated(Send(st, fault, AddRequest(user_dn, AttrsOf(desired)),
                        Answer(SrvAdd(st.dir, user_dn, AttrsOf(desired)))))

\* lines 84-128
UserStage(st, fault, user) ==
  IF st.stop # "" THEN st
  ELSE IF ~(RequiredKeys \subseteq DOMAIN user) THEN [st EXCEPT !.stop = "keyerror"]
  ELSE UserSearched(Send(st, fault, SearchRequest(UserDNOf(user["uid"])),
                         BaseSearch(st.dir, UserDNOf(user["uid"]), "*")),
                    fault, UserDNOf(user["uid"]), DesiredAttrs(user))

GroupAttrs(group_name, user_dn) ==
  ("objectClass" :> <<"groupOfNames", "top">>) @@ ("cn" :> <<group_name>>)
  @@ ("member" :> <<user_dn>>)

\* the membership written as a replacement of the member list
AddMember_replace(user_dn) ==
  <<[attr |-> "member", ops |-> <<[op |-> "replace", values |-> <<user_dn>>]>>]>>

\* line 143: {'member': [(MODIFY_ADD, [user_dn])]}
AddMember(user_dn) ==
  <<[attr |-> "member", ops |-> <<[op |-> "add", values |-> <<user_dn>>]>>]>>

GroupCreated(st) ==
  IF st.stop # "" THEN st
  ELSE IF LastOk(st) THEN Say(st, "Group created and user added as member")
  ELSE Say(st, "Failed to create group")

GroupJoined(st) ==
  IF st.stop # "" THEN st
  ELSE IF LastOk(st) THEN Say(st, "User added to group")
  ELSE Say(st, "Failed to add user to group")

\* lines 134-148
GroupSearched(st, fault, user_dn, group_name) ==
  IF st.stop # "" THEN st
  ELSE IF ~LastFound(st)
  THEN GroupCreated(Send(st, fault,
                         AddRequest(GroupDNOf(group_name), GroupAttrs(group_name, user_dn)),
                         Answer(SrvAdd(st.dir, GroupDNOf(group_name),
                                       GroupAttrs(group_name, user_dn)))))
  ELSE IF user_dn \notin SeqToSet(AttrValues(st.dir[GroupDNOf(group_name)], "member"))
  THEN GroupJoined(Send(st, fault,
                        ModifyRequest(GroupDNOf(group_name), AddMember(user_dn)),
                        Answer(SrvModify(st.dir, GroupDNOf(group_name), AddMember(user_dn)))))
  ELSE Say(st, "User is already a member of group")

\* lines 132-148: for group_name in user_groups (from the k-th on)
RECURSIVE GroupLoop(_, _, _, _, _)
GroupLoop(st, fault, user_dn, user_groups, k) ==
  IF st.stop # "" \/ k > Len(user_groups) THEN st
  ELSE GroupLoop(
         GroupSearched(Send(st, fault, SearchRequest(GroupDNOf(user_groups[k])),
                            BaseSearch(st.dir, GroupDNOf(user_groups[k]), "groupOfNames")),
                       fault, user_dn, user_groups[k]),
         fault, user_dn, user_groups, k + 1)

GroupStage(st, fault, user) ==
  IF st.stop # "" THEN st
  ELSE GroupLoop(st, fault, UserDNOf(user["uid"]), UGet(user, "groups", <<>>), 1)

\* lines 50-154
create_ldap_user(d, user, fault) ==
  GroupStage(
    UserStage(ensure_group_base_dn_exists(Bind(Session(d), fault), fault), fault, user),
    fault, user)

(***************************************************************************)
(* set_ldap_users.py: the users of the YAML file and the directories the   *)
(* run can start from.                                                     *)
(***************************************************************************)
UserLib ==
  [ alice |-> [uid |-> "u1", cn |-> "A", sn |-> "A", email |-> "a@x",
               supplementalGroups |-> <<10, 20>>,
               runAsUser |-> 1000, runAsGroup |-> 1000, fsGroup |-> 1000,
               groups |-> <<"g1">>],
    alice2 |-> [uid |-> "u1", cn |-> "B", sn |-> "A", email |-> "a@x",
                supplementalGroups |-> <<20>>,
                runAsUser |-> 2000, runAsGroup |-> 1000, fsGroup |-> 1000,
                groups |-> <<"g0", "g1">>],
    bob   |-> [uid |-> "u2", cn |-> "B", sn |-> "B",
               runAsUser |-> 1000, runAsGroup |-> 1000, fsGroup |-> 1000,
               groups |-> <<"g1">>],
    carol |-> [uid |-> "u2", cn |-> "C", sn |-> "C", groups |-> <<"g0">>] ]

U1 == UserDNOf("u1")

U2 == UserDNOf("u2")

\* the entry a successful add of the user creates
EntryOf(id) == StoredAttrs(AttrsOf(DesiredAttrs(UserLib[id])))

Reverse(q) == [i \in 1..Len(q) |-> q[Len(q) + 1 - i]]

\* the same entry as the server may return it: multi-valued attributes in
\* another order
Reordered(e) ==
  [a \in DOMAIN e |-> Reverse(e[a])]

GroupEntry(name, members) ==
  ("objectClass" :> <<"groupOfNames", "top">>) @@ ("cn" :> <<name>>)
  @@ ("member" :> members)

BaseDir == (GroupBaseDN :> GroupBaseAttrs)

InitUserDirs ==
  { <<>>,
    BaseDir,
    BaseDir @@ (U1 :> Reordered(EntryOf("alice")))
            @@ (GroupDNOf("g0") :> GroupEntry("g0", <<U1>>))
            @@ (GroupDNOf("g1") :> GroupEntry("g1", <<U2>>)),
    BaseDir @@ (U1 :> EntryOf("alice"))
            @@ (GroupDNOf("g0") :> GroupEntry("g0", <<U2, U1>>))
            @@ (GroupDNOf("g1") :> GroupEntry("g1", <<U1>>)),
    BaseDir @@ (U1 :> (("cn" :> <<"A", "Z">>) @@ ("description" :> <<"d">>)
                       @@ EntryOf("alice")))
            @@ (GroupDNOf("g1") :> GroupEntry("g1", <<U2>>)),
    BaseDir @@ (U2 :> EntryOf("bob"))
            @@ (GroupDNOf("g0") :> GroupEntry("g0", <<U1, U2>>))
            @@ (GroupDNOf("g1") :> (("objectClass" :> <<"posixGroup", "top">>)
                                    @@ ("cn" :> <<"g1">>))) }

\* users processed in one run
MaxUsers == 2

\* the requests of a call at which a fault can strike: the bind, two for the
\* group base, two for the user, two for each of at most two groups
FaultPoints == 1..9

UserFaults == [at : FaultPoints, how : {"raise", "refuse"}]

InitUsers ==
  /\ users \in SeqsUpTo(DOMAIN UserLib, MaxUsers)
  /\ dir \in InitUserDirs
  /\ ui = 1
  /\ crashed = FALSE
  /\ faults = 0
  /\ log = <<>>
  /\ update = FALSE /\ tree = <<>> /\ content = <<>> /\ queue = <<>>
  /\ ri = 1 /\ pass = 1 /\ snap = <<>>
  /\ modDn = "" /\ modEntry = <<>> /\ scanSt = ScanStart /\ scanLog = <<>>

\* lines 206-207: one iteration of main's loop over the users
CallOutcome(st, fault) ==
  /\ dir' = st.dir
  /\ log' = Append(log, [user |-> users[ui], pre |-> dir, post |-> st.dir,
                         fault |-> fault, reqs |-> st.reqs,
                         printed |-> st.printed, stop |-> st.stop])
  /\ crashed' = (st.stop = "keyerror")
  /\ ui' = ui + 1
  /\ UNCHANGED users
  /\ UNCHANGED ldifVars
  /\ UNCHANGED scanVars

CreateLdapUser ==
  /\ ~crashed /\ ui <= Len(users)
  /\ CallOutcome(create_ldap_user(dir, UserLib[users[ui]], NoFault), NoFault)
  /\ UNCHANGED faults

\* the fault strikes a request the call sends
FaultStruck(fault, st) == st.n >= fault.at

CreateLdapUserFaulty ==
  /\ ~crashed /\ ui <= Len(users)
  /\ faults < MaxFaults
  /\ \E fault \in UserFaults :
        /\ FaultStruck(fault, create_ldap_user(dir, UserLib[users[ui]], fault))
        /\ CallOutcome(create_ldap_user(dir, UserLib[users[ui]], fault), fault)
  /\ faults' = faults + 1

NextUsers == CreateLdapUser \/ CreateLdapUserFaulty

SpecUsers == InitUsers /\ [][NextUsers]_vars

(***************************************************************************)
(* process_modify followed iteration by iteration of its while loop, on    *)
(* key lists over the keywords, the separator and attribute names, in any  *)
(* order.                                                                  *)
(***************************************************************************)
ScanKeys == mod_ops \cup {"-", "cn", "sn", "olcAttributeTypes"}

\* the attribute names a keyword line can give
AttrLists == {<<>>, <<"cn", "sn">>, <<"olcAttributeTypes", "cn">>}

\* keys of one dictionary
MaxKeys == 4

\* the key lists the loop is followed on: the keys of a dictionary are
\* distinct; the separator alone may repeat, its value being always empty,
\* so that the loop is also followed over consecutive separators
KeySeqs == {q \in SeqsUpTo(ScanKeys, MaxKeys) :
               NoDuplicates(SelectSeq(q, LAMBDA k : k # "-"))}

ValuesOf(k, named) ==
  CASE k \in mod_ops -> named[k]
    [] k = "-" -> <<>>
    [] k = "cn" -> <<"v1">>
    [] k = "sn" -> <<"v2">>
    [] k = "olcAttributeTypes" -> <<"defC">>

DictOf(q, named) == [i \in 1..Len(q) |-> KV(q[i], ValuesOf(q[i], named))]

InitScan ==
  /\ update \in BOOLEAN
  /\ dir = (SchemaDN :> SchemaEntry(<<"defC">>)) @@ (UserDN :> UserEntry)
  /\ tree = <<>> /\ content = <<>> /\ queue = <<>>
  /\ ri = 1 /\ pass = 1 /\ snap = <<>> /\ faults = 0 /\ log = <<>>
  /\ users = <<>> /\ ui = 1 /\ crashed = FALSE
  /\ modDn \in {UserDN, SchemaDN}
  /\ \E q \in KeySeqs : \E named \in [mod_ops -> AttrLists] :
        modEntry = DictOf(q, named)
  /\ scanSt = ScanStart
  /\ scanLog = <<>>

\* lines 171-217: one iteration of the while loop
WhileIteration ==
  /\ log = <<>>
  /\ scanSt.idx <= Len(modEntry)
  /\ scanSt' = WhileBody(dir, modDn, modEntry, update, scanSt)
  /\ scanLog' = Append(scanLog, [start |-> scanSt.idx, end |-> scanSt'.idx])
  /\ UNCHANGED <<update, dir, tree, content, queue, ri, pass, snap, faults, log,
                 users, ui, crashed, modDn, modEntry>>

\* lines 218-236: the loop is left and the modifications are applied
ApplyModifications ==
  /\ log = <<>>
  /\ scanSt.idx > Len(modEntry)
  /\ dir' = ModifySend(dir, modDn, GroupChanges(scanSt.modlist, <<>>), "none").dir
  /\ log' = <<ModifySend(dir, modDn, GroupChanges(scanSt.modlist, <<>>), "none")>>
  /\ UNCHANGED <<update, tree, content, queue, ri, pass, snap, faults,
                 users, ui, crashed, modDn, modEntry, scanSt, scanLog>>

NextScan == WhileIteration \/ ApplyModifications

SpecScan == InitScan /\ [][NextScan]_vars

(***************************************************************************)
(* Vocabulary of the properties.                                           *)
(***************************************************************************)
\* a directory with the values of every attribute taken as a set
ValueSets(d) == [dn \in DOMAIN d |-> [a \in DOMAIN d[dn] |-> SeqToSet(d[dn][a])]]

SameDirectory(d1, d2) == ValueSets(d1) = ValueSets(d2)

Steps == 1..Len(log)

IsRecordStep(i) == log[i].kind = "record"

\* the directory right after step i
PostDir(i) == IF i < Len(log) THEN log[i + 1].pre ELSE dir

\* steps i < j that handle records with no record handled in between
Consecutive(i, j) ==
  /\ i < j /\ IsRecordStep(i) /\ IsRecordStep(j)
  /\ \A k \in (i + 1)..(j - 1) : ~IsRecordStep(k)

ChangeType(id) ==
  IF HasKey(RecordLib[id].entry, "changetype")
  THEN Get(RecordLib[id].entry, "changetype")[1] ELSE ""

Body(id) == Pop(RecordLib[id].entry, "changetype")

SchemaAttrs == {"olcAttributeTypes", "olcObjectClasses"}

\* a Modify record on the schema entry made of Add ModOps of schema definitions
IsSchemaAddRecord(id) ==
  /\ ~RecordLib[id].nodn /\ RecordLib[id].dn = SchemaDN
  /\ ChangeType(id) = "modify"
  /\ Len(Body(id)) >= 2
  /\ Body(id)[1].key = "add"
  /\ Body(id)[1].values = [k \in 1..(Len(Body(id)) - 1) |-> Body(id)[k + 1].key]
  /\ \A k \in 2..Len(Body(id)) : Body(id)[k].key \in SchemaAttrs

\* its ModOps as declared
DeclaredAdds(id) ==
  {[attr |-> Body(id)[k].key, values |-> Body(id)[k].values] : k \in 2..Len(Body(id))}

IsAddRecord(id) == ~RecordLib[id].nodn /\ ChangeType(id) \in {"", "add"}

\* does the request carry the operation (op, values) on attr
HasOp(req, attr, op, values) ==
  \E c \in 1..Len(req.changes) :
     /\ req.changes[c].attr = attr
     /\ \E o \in 1..Len(req.changes[c].ops) :
           req.changes[c].ops[o] = [op |-> op, values |-> values]

\* the identifier the engine looks up for a ModOp can be extracted
HasNumericId(m) == ExtractOid(Text[m.values[1]]) # <<>>

DirOf(path) == SubSeq(path, 1, Len(path) - 1)

IsProperPrefix(p, q) == Len(p) < Len(q) /\ SubSeq(q, 1, Len(p)) = p

HasBad(path) == Bad \in SeqToSet(content[path])

(***************************************************************************)
(* C1.  Applying the change set twice in a row leaves the directory in     *)
(* the state one application leaves it in, for every initial directory,    *)
(* every change set and both values of the update flag.                    *)
(* The engine does not do this: see C1 in the results.                     *)
(***************************************************************************)
C1_ReapplyIdempotent == (pass = 2 /\ Done) => SameDirectory(dir, snap)

(***************************************************************************)
(* C2.  With update mode off, a schema Modify record of Add ModOps that    *)
(* was applied with success and is applied again right away sends no       *)
(* request and is reported as "No modifications to apply".                 *)
(* As claimed (C2_SecondApplicationSilent) this fails for a definition     *)
(* without an embedded numeric identifier; it holds when the identifier    *)
(* the engine looks up can be extracted (C2_SecondApplicationSilentWithId).*)
(***************************************************************************)
SecondApplication(i, j) ==
  /\ ~update
  /\ Consecutive(i, j)
  /\ log[j].rec = log[i].rec
  /\ IsSchemaAddRecord(log[i].rec)
  /\ log[i].printed = "Successfully modified entry"

EmitsNothing(j) ==
  /\ log[j].req.kind = "none"
  /\ log[j].printed = "No modifications to apply"
  /\ PostDir(j) = log[j].pre

C2_SecondApplicationSilent ==
  \A i, j \in Steps : SecondApplication(i, j) => EmitsNothing(j)

C2_SecondApplicationSilentWithId ==
  \A i, j \in Steps :
     (SecondApplication(i, j) /\ \A m \in DeclaredAdds(log[i].rec) : HasNumericId(m))
        => EmitsNothing(j)

C2_Witness ==
  \E i, j \in Steps :
     /\ SecondApplication(i, j)
     /\ \A m \in DeclaredAdds(log[i].rec) : HasNumericId(m)
     /\ log[j].pass = 2
     /\ EmitsNothing(j)

(***************************************************************************)
(* C3.  With update mode on, an Add ModOp of a schema Modify record whose  *)
(* definition the lookup finds present is sent as a Replace of the same    *)
(* attribute with the same values, not as an Add and not skipped, and a    *)
(* result of 0 is reported as a successful modification.                   *)
(***************************************************************************)
C3_ExistingSentAsReplace ==
  \A i \in Steps :
     (update /\ IsRecordStep(i) /\ IsSchemaAddRecord(log[i].rec)) =>
        \A m \in DeclaredAdds(log[i].rec) :
           Exists(log[i].pre, m.attr, m.values[1]) =>
              /\ log[i].req.kind = "modify"
              /\ log[i].req.dn = SchemaDN
              /\ HasOp(log[i].req, m.attr, "replace", m.values)
              /\ ~HasOp(log[i].req, m.attr, "add", m.values)
              /\ (ResultCode(log[i].desc) = 0
                    => log[i].printed = "Successfully modified entry")

C3_Witness ==
  \E i \in Steps :
     /\ update /\ IsRecordStep(i) /\ IsSchemaAddRecord(log[i].rec)
     /\ \E m \in DeclaredAdds(log[i].rec) :
           /\ Exists(log[i].pre, m.attr, m.values[1])
           /\ HasOp(log[i].req, m.attr, "replace", m.values)
     /\ log[i].printed = "Successfully modified entry"

(***************************************************************************)
(* C4.  A delete of an identifier that is absent from the directory is     *)
(* reported as informational, never as a failure.                          *)
(* process_delete reports it as "Failed to delete entry": see C4 in the    *)
(* results.                                                                *)
(***************************************************************************)
C4_DeleteAbsentIsInformational ==
  \A i \in Steps :
     (IsRecordStep(i) /\ log[i].req.kind = "delete"
        /\ log[i].req.dn \notin DOMAIN log[i].pre
        /\ log[i].desc = "noSuchObject")
     => log[i].printed \notin {"Failed to delete entry", "Error deleting entry"}

(***************************************************************************)
(* C5.  An entry Add (changetype add, or no changetype) of an identifier   *)
(* that exists is sent as an add, reported as a failure, leaves the        *)
(* directory as it was, whatever the update flag, and the run goes on      *)
(* with the next block of the file.                                        *)
(***************************************************************************)
AddOfExisting(i) ==
  /\ IsRecordStep(i) /\ IsAddRecord(log[i].rec)
  /\ RecordLib[log[i].rec].dn \in DOMAIN log[i].pre

GoesOn(i) ==
  /\ ~log[i].raised
  /\ i < Len(log) =>
        /\ log[i + 1].pass = log[i].pass
        /\ log[i + 1].path = log[i].path
        /\ log[i + 1].ri = log[i].ri + 1

C5_AddOfExistingFails ==
  \A i \in Steps :
     AddOfExisting(i) =>
        /\ log[i].req.kind = "add"
        /\ log[i].printed = "Failed to add entry"
        /\ PostDir(i) = log[i].pre
        /\ GoesOn(i)

C5_Witness ==
  \E i \in Steps :
     /\ AddOfExisting(i) /\ update
     /\ i < Len(log) /\ IsRecordStep(i + 1)
     /\ log[i].desc = "entryAlreadyExists"

(***************************************************************************)
(* C6.  Every record the parser can yield (every record of a file that is  *)
(* not behind a malformed block) is handled, whatever happened to the      *)
(* records before it.                                                      *)
(* A schema lookup that raises ends the file: see C6 in the results.       *)
(***************************************************************************)
Handled(path, k) ==
  \E i \in Steps : log[i].path = path /\ log[i].ri = k /\ log[i].kind \in {"record", "nodn"}

C6_NoShortCircuit ==
  Done =>
    \A path \in DOMAIN content : \A k \in 1..Len(content[path]) :
       (\A j \in 1..k : content[path][j] # Bad) => Handled(path, k)

(***************************************************************************)
(* C7.  A file with a malformed block.                                     *)
(* As claimed (C7_MalformedFileChangesNothing): no step on such a file     *)
(* changes the directory.  This fails: the records before the malformed    *)
(* block are applied before the parser reaches it.                         *)
(* What holds (C7_MalformedFileStopsAtError): the parse error is reported  *)
(* and changes nothing, no block at or behind the malformed one is         *)
(* handled, and every file of the tree is still visited.                   *)
(***************************************************************************)
C7_MalformedFileChangesNothing ==
  \A i \in Steps : HasBad(log[i].path) => PostDir(i) = log[i].pre

Visited(path) == \E i \in Steps : log[i].path = path

C7_MalformedFileStopsAtError ==
  /\ \A i \in Steps :
        /\ \A k \in 1..(log[i].ri - 1) : content[log[i].path][k] # Bad
        /\ log[i].kind \in {"record", "nodn"} => content[log[i].path][log[i].ri] # Bad
        /\ log[i].kind = "parse_error" =>
              /\ content[log[i].path][log[i].ri] = Bad
              /\ log[i].req.kind = "none"
              /\ log[i].printed = "Error processing LDIF file"
              /\ PostDir(i) = log[i].pre
  /\ Done => \A path \in DOMAIN content : Visited(path)

C7_Witness ==
  /\ Done
  /\ \E i, j \in Steps :
        /\ i < j
        /\ log[i].kind = "parse_error" /\ log[i].ri > 1
        /\ log[i - 1].desc = "success"
        /\ log[j].path # log[i].path /\ IsRecordStep(j)

(***************************************************************************)
(* C8.  Bottom-up order: no record of a file directly in a directory D is  *)
(* handled before a record of a file in a subdirectory of D.               *)
(***************************************************************************)
C8_BottomUp ==
  \A i, j \in Steps :
     (i < j /\ IsRecordStep(i) /\ IsRecordStep(j))
        => ~IsProperPrefix(DirOf(log[i].path), DirOf(log[j].path))

C8_Witness ==
  \E i, j \in Steps :
     /\ i < j /\ IsRecordStep(i) /\ IsRecordStep(j)
     /\ log[i].path = <<"a", "b", "c.ldif">>
     /\ log[j].path = <<"a", "b.ldif">>

(***************************************************************************)
(* C11.  The result of every add, delete and modify request is read three  *)
(* ways: 0 is reported as a success, 20 (attributeOrValueExists) as a      *)
(* skip and not as a failure, any other code as a failure; the run goes on *)
(* with the next block in all three cases.                                 *)
(* process_add and process_delete know two cases only: an add answered 20  *)
(* is reported as "Failed to add entry".  See C11 in the results.          *)
(***************************************************************************)
SuccessLines ==
  {"Successfully added entry", "Successfully deleted entry", "Successfully modified entry"}

FailureLines ==
  {"Failed to add entry", "Failed to delete entry", "Failed to modify entry"}

ErrorLines == {"Error adding entry", "Error deleting entry", "Error modifying entry"}

Answered(i) == IsRecordStep(i) /\ log[i].req.kind # "none" /\ log[i].desc # ""

C11_ThreeWayClassification ==
  \A i \in Steps :
     Answered(i) =>
        /\ ResultCode(log[i].desc) = 0 => log[i].printed \in SuccessLines
        /\ ResultCode(log[i].desc) = 20 =>
              log[i].printed \notin FailureLines \cup ErrorLines
        /\ ResultCode(log[i].desc) \notin {0, 20} => log[i].printed \in FailureLines
        /\ GoesOn(i)

(***************************************************************************)
(* C12.  A record whose target identifier is null or the empty string is   *)
(* passed over: nothing is sent for it, nothing is reported, the directory *)
(* stays as it was and the next block of the file is read.                 *)
(* Only the null identifier is passed over; a record with the empty string *)
(* as identifier is dispatched like any other.  See C12 in the results.    *)
(***************************************************************************)
NoTarget(id) == RecordLib[id].nodn \/ RecordLib[id].dn = ""

C12_NoTargetDiscarded ==
  \A i \in Steps :
     (log[i].kind \in {"record", "nodn"} /\ NoTarget(log[i].rec)) =>
        /\ log[i].req.kind = "none"
        /\ log[i].printed = ""
        /\ PostDir(i) = log[i].pre
        /\ GoesOn(i)

(***************************************************************************)
(* C14.  In a schema Modify record of Add ModOps, what is sent for a ModOp *)
(* depends on its own lookup result and the update flag only: a ModOp      *)
(* whose definition the lookup does not find is sent as an Add with its    *)
(* values; one whose definition is found is left out (update off) or sent  *)
(* as a Replace (update on), whatever happened to the ModOps before it.    *)
(* After a downgrade the following ModOps of the same keyword are sent as  *)
(* Replace without a lookup.  See C14 in the results.                      *)
(***************************************************************************)
SentFor(i, m, op) == log[i].req.kind = "modify" /\ HasOp(log[i].req, m.attr, op, m.values)

C14_ModOpsIndependent ==
  \A i \in Steps :
     (IsRecordStep(i) /\ IsSchemaAddRecord(log[i].rec)) =>
        \A m \in DeclaredAdds(log[i].rec) :
           IF ~Exists(log[i].pre, m.attr, m.values[1])
           THEN SentFor(i, m, "add") /\ ~SentFor(i, m, "replace")
           ELSE IF update
           THEN SentFor(i, m, "replace") /\ ~SentFor(i, m, "add")
           ELSE ~SentFor(i, m, "add") /\ ~SentFor(i, m, "replace")

(***************************************************************************)
(* C15.  The first ModOp of a schema Modify record of Add ModOps (no ModOp *)
(* before it can bear on it): every definition value it carries whose      *)
(* numeric identifier is not the identifier of a definition of the same    *)
(* kind held by the directory, or that has no identifier, is sent in an    *)
(* Add of that attribute.                                                  *)
(* The lookup is a substring filter on the identifier of the first value:  *)
(* an identifier that is part of a longer one counts as present, and the   *)
(* values after the first are not looked up.  See C15 in the results.      *)
(***************************************************************************)
OidOf(v) == ExtractOid(Text[v])

\* the directory holds a definition under attr with the identifier of v
HoldsIdentifier(d, attr, v) ==
  /\ OidOf(v) # <<>>
  /\ SchemaDN \in DOMAIN d
  /\ \E k \in 1..Len(AttrValues(d[SchemaDN], attr)) :
        OidOf(AttrValues(d[SchemaDN], attr)[k]) = OidOf(v)

FirstModOp(id) == [attr |-> Body(id)[2].key, values |-> Body(id)[2].values]

\* the request of step i carries v in an Add of attr
AddsValue(i, attr, v) ==
  /\ log[i].req.kind = "modify"
  /\ \E c \in 1..Len(log[i].req.changes) :
        /\ log[i].req.changes[c].attr = attr
        /\ \E o \in 1..Len(log[i].req.changes[c].ops) :
              /\ log[i].req.changes[c].ops[o].op = "add"
              /\ v \in SeqToSet(log[i].req.changes[c].ops[o].values)

C15_ExactIdentifier ==
  \A i \in Steps :
     (IsRecordStep(i) /\ IsSchemaAddRecord(log[i].rec)) =>
        \A v \in SeqToSet(FirstModOp(log[i].rec).values) :
           ~HoldsIdentifier(log[i].pre, FirstModOp(log[i].rec).attr, v)
              => AddsValue(i, FirstModOp(log[i].rec).attr, v)

(***************************************************************************)
(* C16.  Every ModOp a Modify record declares, block by block, is carried  *)
(* by the request sent for the record with its kind, attribute and values  *)
(* (records on an entry other than the schema entry, where no ModOp is     *)
(* left out for being present already).                                    *)
(* When a keyword opens two blocks the second block is lost.  See C16 in   *)
(* the results.                                                            *)
(***************************************************************************)
\* the blocks of the records as written in the file
BlocksOf ==
  [ modX   |-> <<[op |-> "add", attr |-> "cn", values |-> <<"v2">>]>>,
    sepAdd |-> <<[op |-> "add", attr |-> "cn", values |-> <<"v2">>],
                 [op |-> "add", attr |-> "sn", values |-> <<"v1">>]>> ]

C16_EveryBlockSent ==
  \A i \in Steps :
     (IsRecordStep(i) /\ log[i].rec \in DOMAIN BlocksOf) =>
        /\ log[i].req.kind = "modify"
        /\ FlattenChanges(log[i].req.changes)
             = [k \in 1..Len(BlocksOf[log[i].rec]) |->
                  [op |-> BlocksOf[log[i].rec][k].op,
                   attr |-> BlocksOf[log[i].rec][k].attr,
                   values |-> BlocksOf[log[i].rec][k].values]]

(***************************************************************************)
(* C17.  One request per record, never sent again.  The step for a record  *)
(* sends: for an Add record (changetype add or none) the add of its        *)
(* attributes; for a Delete record the delete; for a Modify record whose   *)
(* scan leaves ModOps one modify that carries exactly these ModOps, each   *)
(* attribute once with its operations in order; for a Modify record whose  *)
(* scan leaves none, and for any other changetype, nothing (a Modify       *)
(* record left by an exception of a lookup sends nothing either).  No      *)
(* block of a file is handled twice in one invocation of main, whatever    *)
(* its result.                                                             *)
(***************************************************************************)
ResultingModOps(i) ==
  ScanModify(log[i].pre, RecordLib[log[i].rec].dn, Body(log[i].rec), update).modlist

\* the operations of modlist on attr, in order
OpsOn(modlist, attr) ==
  LET sel == SelectSeq(modlist, LAMBDA m : m.attr = attr)
  IN [k \in 1..Len(sel) |-> [op |-> sel[k].op, values |-> sel[k].values]]

\* the request carries exactly the ModOps of modlist, grouped by attribute
Carries(req, modlist) ==
  /\ Len(FlattenChanges(req.changes)) = Len(modlist)
  /\ \A k \in 1..Len(modlist) :
        \E c \in 1..Len(req.changes) : req.changes[c].attr = modlist[k].attr
  /\ \A c1, c2 \in 1..Len(req.changes) :
        req.changes[c1].attr = req.changes[c2].attr => c1 = c2
  /\ \A c \in 1..Len(req.changes) :
        req.changes[c].ops = OpsOn(modlist, req.changes[c].attr)

\* the request of a Modify record whose scan leaves modlist
RequestOfModify(e, dn, modlist) ==
  IF e.raised \/ modlist = <<>>
  THEN /\ e.req = NoRequest
       /\ ~e.raised => e.printed = "No modifications to apply"
  ELSE /\ e.req.kind = "modify"
       /\ e.req.dn = dn
       /\ Carries(e.req, modlist)

RequestOfRecord(i) ==
  CASE ChangeType(log[i].rec) \in {"", "add"} ->
         log[i].req = AddRequest(RecordLib[log[i].rec].dn, DictAttrs(Body(log[i].rec)))
    [] ChangeType(log[i].rec) = "delete" ->
         log[i].req = DeleteRequest(RecordLib[log[i].rec].dn)
    [] ChangeType(log[i].rec) = "modify" ->
         RequestOfModify(log[i], RecordLib[log[i].rec].dn, ResultingModOps(i))
    [] OTHER -> log[i].req = NoRequest

C17_OneRequestPerRecord ==
  /\ \A i \in Steps :
        /\ IsRecordStep(i) => RequestOfRecord(i)
        /\ ~IsRecordStep(i) => log[i].req = NoRequest
  /\ \A i, j \in Steps :
        (i < j /\ log[i].pass = log[j].pass /\ log[i].path = log[j].path)
           => log[i].ri < log[j].ri

\* a request failed, a later Modify record had nothing left to send, and
\* the run ended without the failed request being sent again
C17_Witness ==
  /\ Done /\ pass = 1
  /\ \E i, j \in Steps :
        /\ i < j
        /\ IsRecordStep(i) /\ log[i].req.kind = "add"
        /\ log[i].desc \notin {"", "success"}
        /\ IsRecordStep(j) /\ ChangeType(log[j].rec) = "modify"
        /\ log[j].req = NoRequest
        /\ log[j].printed = "No modifications to apply"
        /\ \A k \in Steps : k # i => log[k].req # log[i].req

(***************************************************************************)
(* C19.  Within one run, a schema definition with an embedded numeric      *)
(* identifier that a Modify record added with success is not sent in an    *)
(* Add again by a later record of the run: the later lookup sees it.       *)
(* The lookups do see the earlier writes, but only the first value of a    *)
(* ModOp is looked up: a definition declared again behind a new one is     *)
(* sent in an Add a second time.  See C19 in the results.                  *)
(***************************************************************************)
AddedBy(i, attr, v) ==
  /\ IsRecordStep(i) /\ IsSchemaAddRecord(log[i].rec)
  /\ AddsValue(i, attr, v)

C19_NeverAddedTwice ==
  \A i, j \in Steps :
     (i < j /\ log[i].pass = log[j].pass) =>
        \A attr \in SchemaAttrs : \A v \in {"defA", "defB", "defC", "defO"} :
           (AddedBy(i, attr, v) /\ log[i].desc = "success" /\ OidOf(v) # <<>>)
              => ~AddedBy(j, attr, v)

(***************************************************************************)
(* Vocabulary of the properties of set_ldap_users.py.                      *)
(***************************************************************************)
Calls == 1..Len(log)

Complete(user) == RequiredKeys \subseteq DOMAIN user

\* the requests of a call on one entry
RequestsOn(c, dn) == {k \in 1..Len(c.reqs) : c.reqs[k].dn = dn}

ModifiesOn(c, dn) == {k \in RequestsOn(c, dn) : c.reqs[k].kind = "modify"}

\* the current value of a desired attribute equals the desired one: lists
\* as sets, scalars as single values, an absent attribute as [] or ''
SameValue(want, e) ==
  IF want.list
  THEN SeqToSet(want.values) = SeqToSet(AttrValues(e, want.attr))
  ELSE \/ AttrValues(e, want.attr) = want.values
       \/ want.attr \notin DOMAIN e /\ want.values = <<"">>

UpToDate(d, user) ==
  /\ Complete(user)
  /\ UserDNOf(user["uid"]) \in DOMAIN d
  /\ \A i \in 1..Len(DesiredAttrs(user)) :
        SameValue(DesiredAttrs(user)[i], d[UserDNOf(user["uid"])])

\* the call looked the user entry up and was told it exists
FoundUser(c) ==
  /\ Complete(UserLib[c.user])
  /\ \E k \in RequestsOn(c, UserDNOf(UserLib[c.user]["uid"])) :
        c.reqs[k].kind = "search" /\ c.reqs[k].found

Printed(c, msg) == \E k \in 1..Len(c.printed) : c.printed[k] = msg

\* the call brought the user entry to the desired state or found it there
UserSettled(c) ==
  \/ Printed(c, "User created successfully")
  \/ Printed(c, "User updated successfully")
  \/ Printed(c, "No updates necessary")

GroupDNs == {GroupDNOf("g0"), GroupDNOf("g1")}

Members(d, dn) == AttrValues(d[dn], "member")

\* C9: a call that finds the user entry with every desired attribute at its
\* desired value sends no modify request for the user entry and, once its
\* lookup of the entry is answered, prints 'No updates necessary'; a call
\* made directly after a call for the same user that created, updated or
\* found up to date the user entry sends no modify request for it.
C9_NoUpdateWhenUpToDate ==
  /\ \A i \in Calls :
        UpToDate(log[i].pre, UserLib[log[i].user]) =>
          /\ ModifiesOn(log[i], UserDNOf(UserLib[log[i].user]["uid"])) = {}
          /\ FoundUser(log[i]) => Printed(log[i], "No updates necessary")
  /\ \A i \in Calls :
        (i > 1 /\ log[i - 1].user = log[i].user /\ UserSettled(log[i - 1])) =>
          ModifiesOn(log[i], UserDNOf(UserLib[log[i].user]["uid"])) = {}

\* alice's entry holds her lists in another order: the call finds it up to
\* date, and so does the call that follows it
C9_Witness ==
  /\ Len(log) = 2
  /\ log[1].user = "alice" /\ log[2].user = "alice"
  /\ U1 \in DOMAIN log[1].pre
  /\ log[1].pre[U1] = Reordered(EntryOf("alice"))
  /\ log[1].pre[U1] # EntryOf("alice")
  /\ Printed(log[1], "No updates necessary")
  /\ Printed(log[2], "No updates necessary")

\* C10: no entry ever lists a member twice; every call leaves every entry
\* in place with all the members it had; the requests sent on group entries
\* are lookups, the creation of the group with the user as its member, and
\* the addition of the user to the member list, which the server never
\* answers with attributeOrValueExists.
C10_GroupsUnionOnly ==
  /\ \A dn \in DOMAIN dir : NoDuplicates(Members(dir, dn))
  /\ \A i \in Calls :
        \A dn \in DOMAIN log[i].pre :
           /\ dn \in DOMAIN log[i].post
           /\ SeqToSet(Members(log[i].pre, dn)) \subseteq SeqToSet(Members(log[i].post, dn))
  /\ \A i \in Calls : \A dn \in GroupDNs : \A k \in RequestsOn(log[i], dn) :
        LET r == log[i].reqs[k]
            user_dn == UserDNOf(UserLib[log[i].user]["uid"])
        IN /\ r.kind \in {"search", "add", "modify"}
           /\ r.kind = "add" => r.attrs["member"] = <<user_dn>>
           /\ r.kind = "modify" =>
                /\ FlattenChanges(r.changes)
                     = <<[op |-> "add", attr |-> "member", values |-> <<user_dn>>]>>
                /\ r.desc # "attributeOrValueExists"

\* alice, a member of g0 and not of g1, asks for g1 only: she is added to
\* g1 next to its member and stays in g0
C10_Witness ==
  /\ Len(log) >= 1
  /\ log[1].user = "alice"
  /\ GroupDNOf("g0") \in DOMAIN log[1].pre
  /\ U1 \in SeqToSet(Members(log[1].pre, GroupDNOf("g0")))
  /\ Printed(log[1], "User added to group")
  /\ Members(log[1].post, GroupDNOf("g1")) = <<U2, U1>>
  /\ U1 \in SeqToSet(Members(dir, GroupDNOf("g0")))

(***************************************************************************)
(* C13.  A failure while one user is reconciled never keeps the users      *)
(* after it from being reconciled, and a user record needs uid, cn and sn  *)
(* only: no call for a record that has them ends in an exception that      *)
(* leaves create_ldap_user, and main never stops with users left.          *)
(* A record without runAsUser, runAsGroup or fsGroup raises KeyError,      *)
(* which ends main.  See C13 in the results.                               *)
(***************************************************************************)
NamedUser(user) == {"uid", "cn", "sn"} \subseteq DOMAIN user

C13_FailureIsolation ==
  /\ \A i \in Calls : NamedUser(UserLib[log[i].user]) => log[i].stop # "keyerror"
  /\ ~(crashed /\ ui <= Len(users))

(***************************************************************************)
(* C20.  Every user identifier that a call puts into a member list, as the *)
(* member of a group it creates or by an addition to an existing group,    *)
(* names an entry of the directory; a call that failed to create or update *)
(* the user entry sends no add or modify on a group.                       *)
(* The group loop runs whatever happened to the user entry.  See C20 in    *)
(* the results.                                                            *)
(***************************************************************************)
GroupWrites(c) ==
  {k \in 1..Len(c.reqs) : c.reqs[k].dn \in GroupDNs /\ c.reqs[k].kind \in {"add", "modify"}}

UserFailed(c) ==
  Printed(c, "Failed to create user") \/ Printed(c, "Failed to update user")

C20_MembersExist ==
  \A i \in Calls :
     /\ (\E k \in GroupWrites(log[i]) : log[i].reqs[k].desc = "success")
           => UserDNOf(UserLib[log[i].user]["uid"]) \in DOMAIN log[i].post
     /\ UserFailed(log[i]) => GroupWrites(log[i]) = {}

(***************************************************************************)
(* C18.  A call that finds the user entry sends a modify for it exactly    *)
(* when some desired attribute differs from the entry (lists as sets,      *)
(* scalars against the first value held, or '' when the attribute is       *)
(* absent); the modify carries one Replace with the desired value for each *)
(* differing attribute and nothing else, and when it succeeds every other  *)
(* attribute of the entry is as it was.                                    *)
(***************************************************************************)
FirstOrEmpty(vals) == IF vals = <<>> THEN "" ELSE vals[1]

\* positions of the desired attributes that differ from the entry e
Differing(desired, e) ==
  {k \in 1..Len(desired) :
     IF desired[k].list
     THEN SeqToSet(desired[k].values) # SeqToSet(AttrValues(e, desired[k].attr))
     ELSE desired[k].values[1] # FirstOrEmpty(AttrValues(e, desired[k].attr))}

ReplaceOf(want) ==
  [attr |-> want.attr, ops |-> <<[op |-> "replace", values |-> want.values]>>]

ExactModification(c, user_dn, desired) ==
  IF Differing(desired, c.pre[user_dn]) = {}
  THEN ModifiesOn(c, user_dn) = {}
  ELSE /\ Cardinality(ModifiesOn(c, user_dn)) = 1
       /\ \A k \in ModifiesOn(c, user_dn) :
             /\ Len(c.reqs[k].changes) = Cardinality(Differing(desired, c.pre[user_dn]))
             /\ SeqToSet(c.reqs[k].changes)
                  = {ReplaceOf(desired[d]) : d \in Differing(desired, c.pre[user_dn])}
             /\ c.reqs[k].desc = "success" =>
                   \A a \in DOMAIN c.pre[user_dn] :
                      (\A d \in Differing(desired, c.pre[user_dn]) : desired[d].attr # a)
                         => /\ a \in DOMAIN c.post[user_dn]
                            /\ c.post[user_dn][a] = c.pre[user_dn][a]

C18_ExactlyTheDifferences ==
  \A i \in Calls :
     FoundUser(log[i]) =>
        ExactModification(log[i], UserDNOf(UserLib[log[i].user]["uid"]),
                          DesiredAttrs(UserLib[log[i].user]))

\* an entry with two values of cn and an attribute outside the desired set
\* is brought to alice2: cn is replaced, sn (equal) is not in the request,
\* description stays
C18_Witness ==
  \E i \in Calls :
     /\ log[i].user = "alice2"
     /\ FoundUser(log[i])
     /\ log[i].pre[U1]["cn"] = <<"A", "Z">>
     /\ Printed(log[i], "User updated successfully")
     /\ \E k \in ModifiesOn(log[i], U1) :
           /\ ReplaceOf(Scalar("cn", "B")) \in SeqToSet(log[i].reqs[k].changes)
           /\ \A c \in 1..Len(log[i].reqs[k].changes) :
                 log[i].reqs[k].changes[c].attr \notin {"sn", "description"}
     /\ log[i].post[U1]["description"] = <<"d">>
     /\ log[i].post[U1]["cn"] = <<"B">>

(***************************************************************************)
(* C21.  After a call that found the user entry and whose every request    *)
(* succeeded, the entry is in the desired state: every scalar desired      *)
(* attribute holds the desired value and no other, every list-valued one   *)
(* the desired set of values.                                              *)
(* A scalar attribute is compared by its first value only: an entry whose  *)
(* cn holds the desired value first and another value behind it is left    *)
(* as it is.  See C21 in the results.                                      *)
(***************************************************************************)
AllSucceeded(c) ==
  /\ c.stop = ""
  /\ \A k \in 1..Len(c.reqs) : c.reqs[k].desc = "success"

C21_EntryMatchesDesired ==
  \A i \in Calls :
     (FoundUser(log[i]) /\ AllSucceeded(log[i])) =>
        \A k \in 1..Len(DesiredAttrs(UserLib[log[i].user])) :
           SameValue(DesiredAttrs(UserLib[log[i].user])[k],
                     log[i].post[UserDNOf(UserLib[log[i].user]["uid"])])

(***************************************************************************)
(* C22.  The scan of process_modify terminates on every dictionary: every  *)
(* iteration of the while loop starts where the one before ended and ends  *)
(* at a greater index, the index never passes the end of the keys, so      *)
(* there are at most as many iterations as keys; a key is read as an       *)
(* attribute at most once, in the iteration that passes over it; and what  *)
(* the loop leaves is what the scan as a whole computes.                   *)
(***************************************************************************)
Iterations == 1..Len(scanLog)

\* the iteration that passes over position p
PassesOver(k, p) == scanLog[k].start < p /\ p < scanLog[k].end

C22_ScanTerminates ==
  /\ scanSt.idx \in 1..(Len(modEntry) + 1)
  /\ \A k \in Iterations :
        /\ scanLog[k].start < scanLog[k].end
        /\ scanLog[k].end <= Len(modEntry) + 1
        /\ scanLog[k].start = (IF k = 1 THEN 1 ELSE scanLog[k - 1].end)
  /\ scanLog # <<>> => scanSt.idx = scanLog[Len(scanLog)].end
  /\ Len(scanLog) <= Len(modEntry)
  /\ NoDuplicates(scanSt.consumed)
  /\ \A c \in 1..Len(scanSt.consumed) :
        /\ scanSt.consumed[c] < scanSt.idx
        /\ \E k \in Iterations : PassesOver(k, scanSt.consumed[c])
        /\ modEntry[scanSt.consumed[c]].key \notin mod_ops
  /\ scanSt.idx > Len(modEntry) =>
        scanSt = ScanModify(dir, modDn, modEntry, update)
           \/ log # <<>>

\* a malformed key list was scanned to its end: a keyword whose second
\* attribute is not the key that follows, then two separators in a row
C22_Witness ==
  /\ Keys(modEntry) = <<"add", "cn", "-", "-">>
  /\ modEntry[1].values = <<"cn", "sn">>
  /\ scanSt.idx = Len(modEntry) + 1
  /\ Len(scanLog) = 2
  /\ scanSt.consumed = <<2>>
  /\ log # <<>>

=============================================================================
